---- MODULE Spec2Model ----
(***************************************************************************)
(* ContextChain: the CLI commands schema_compile, schema_push, run and     *)
(* run_task (app/cli/main.py), the schema validator                        *)
(* (app/engine/validator.py) and the stub executor                         *)
(* (app/engine/executor.py) over a MongoDB database.                       *)
(*                                                                         *)
(* A MongoDB collection is modelled as a bag of documents.  The collection *)
(* schema_registry holds the schema documents (variable registry) and any  *)
(* result document a task sends there (db["schema_registry"]).             *)
(* time.time() is the variable clock; several readers may see one value.   *)
(***************************************************************************)
EXTENDS Integers, Sequences, FiniteSets, Bags, TLC

\* Largest number of entries of schema.tasks, and largest task id.
MaxTasks == 2
\* Largest value the clock time.time() reaches.
MaxClock == 1
\* Largest number of VersionManager calls made on one schema.
MaxCalls == 2
\* global_config.max_retries written by init (its prompt's default).
DefaultMaxRetries == 2

\* Two concurrent invocations of the CLI.
Procs == {"cli_a", "cli_b"}
TaskIds == 1 .. MaxTasks
\* The collections setup_collections creates indexes on.
Collections == {"schema_registry", "task_results", "trigger_logs"}
\* allowed_task_types as init writes it without prompts.
DefaultAllowedTaskTypes == {"GET", "POST", "PUT", "LLM", "LOCAL"}
\* Task types a schema file may name; SHELL is in no allow-list.
TaskTypes == {"LOCAL", "LLM", "SHELL"}
\* Dispatch targets; no callable is registered under no.such.function.
Endpoints == {"path.to.function", "no.such.function"}
\* --pipeline_id values given on the command line.
PipelineIds == {"p1", "p2"}
AllKeys == {"pipeline_id", "tasks", "global_config"}

VARIABLES
    file,       \* the schema file on disk
    registry,   \* schema documents of collection schema_registry
    db,         \* result documents, per collection (a bag each)
    clock,      \* the value time.time() returns now
    pc,         \* per invocation: where it stands
    cmd,        \* per invocation: the command and its arguments
    schema,     \* per invocation: the set holding the loaded schema
    run_id,     \* per invocation: the run identifier it generated
    idx,        \* per invocation: index into schema.tasks of the next insert
    written,    \* per invocation: the insert_one calls that returned, in order
    exit_code,  \* per invocation: process exit code (-1 while running)
    msg,        \* per invocation: the last line printed
    push_exit,  \* exit code of the schema_push invocation (-1: not run yet)
    v_schema,   \* schema_compile: the schema read from --file
    v_result,   \* schema_compile: outcome of validate_schema
    vm_schema,  \* VersionManager: the schema dict its methods are given
    vm_out,     \* VersionManager: the last call and what it returned
    vm_log      \* VersionManager: the levels of the lines logged so far

\* The VersionManager's caller state.
vm == <<vm_schema, vm_out, vm_log>>

vars == <<file, registry, db, clock, pc, cmd, schema, run_id, idx, written,
          exit_code, msg, push_exit, v_schema, v_result, vm_schema, vm_out, vm_log>>

----------------------------------------------------------------------------
\* Schema documents

GlobalConfig(allowed, retry, maxr) ==
    [allowed_task_types |-> allowed, retry_on_failure |-> retry, max_retries |-> maxr]

\* global_config as init writes it without prompts.
DefaultGlobalConfig == GlobalConfig(DefaultAllowedTaskTypes, TRUE, DefaultMaxRetries)

Task(id, type, ep, ins, coll) ==
    [task_id |-> id, task_type |-> type, endpoint |-> ep, inputs |-> ins,
     output_collection |-> coll]

\* The task configure_task builds without prompts.
DefaultTask(id) == Task(id, "LOCAL", "path.to.function", {}, "task_results")

Schema(keys, pid, tasks, gc) ==
    [keys |-> keys, pipeline_id |-> pid, tasks |-> tasks, global_config |-> gc]

\* dict.get(key) on a schema: a missing key and an empty string are both falsy.
HasPipelineId(s) == "pipeline_id" \in s.keys /\ s.pipeline_id # ""

\* schema.get("tasks", [])
TasksOf(s) == IF "tasks" \in s.keys THEN s.tasks ELSE << >>

----------------------------------------------------------------------------
\* app/engine/validator.py

\* validate_schema's loop leaving after its first pass.
ValidateFirstTask(s, i) ==
    IF i > Len(TasksOf(s)) THEN "ok"
    ELSE IF "global_config" \notin s.keys THEN "KeyError"
    ELSE IF TasksOf(s)[i].task_type \notin s.global_config.allowed_task_types
         THEN "ValueError"
    ELSE "ok"

RECURSIVE ValidateTasks(_, _)
ValidateTasks(s, i) ==
    IF i > Len(TasksOf(s)) THEN "ok"
    ELSE IF "global_config" \notin s.keys THEN "KeyError"
    ELSE IF TasksOf(s)[i].task_type \notin s.global_config.allowed_task_types
         THEN "ValueError"
    ELSE ValidateTasks(s, i + 1)

validate_schema(s) ==
    IF ~HasPipelineId(s) THEN "ValueError" ELSE ValidateTasks(s, 1)

----------------------------------------------------------------------------
\* Schema files.  SchemaFiles are the files that differ from what
\* init --no-interactive writes in one aspect: the order and inputs of the
\* tasks, their task types, their output collections, their endpoints and
\* the retry switch, or the keys present and the pipeline id.

\* Sequences of task ids, of every length up to MaxTasks: any order, and
\* an id may repeat (validate_schema does not look at task_id).
Orders == UNION {[1 .. n -> TaskIds] : n \in 0 .. MaxTasks}

\* The ids 1..n in ascending order, as init numbers its tasks.
Prefixes == {[i \in 1 .. n |-> i] : n \in 1 .. MaxTasks}

\* A task names no predecessor, the task before it, or the task after it.
InputChoices(id) == {{}} \cup {{j} : j \in {id - 1, id + 1} \cap TaskIds}

MkSchema(o, ty, ep, ins, coll, gc) ==
    Schema(AllKeys, "p1",
           [i \in 1 .. Len(o) |-> Task(o[i], ty[o[i]], ep[o[i]], ins[o[i]], coll[o[i]])],
           gc)

DefTy == [id \in TaskIds |-> "LOCAL"]
DefEp == [id \in TaskIds |-> "path.to.function"]
DefIns == [id \in TaskIds |-> {}]
DefColl == [id \in TaskIds |-> "task_results"]

DepSchemas ==
    {MkSchema(o, DefTy, DefEp, ins, DefColl, DefaultGlobalConfig) :
        o \in Orders,
        ins \in {f \in [TaskIds -> SUBSET TaskIds] : \A id \in TaskIds : f[id] \in InputChoices(id)}}

TypeSchemas ==
    {MkSchema(o, ty, DefEp, DefIns, DefColl, DefaultGlobalConfig) :
        o \in Prefixes, ty \in [TaskIds -> TaskTypes]}

SinkSchemas ==
    {MkSchema(o, DefTy, DefEp, DefIns, coll, DefaultGlobalConfig) :
        o \in Prefixes, coll \in [TaskIds -> Collections]}

RetrySchemas ==
    {MkSchema(o, DefTy, ep, DefIns, DefColl,
              GlobalConfig(DefaultAllowedTaskTypes, retry, DefaultMaxRetries)) :
        o \in Prefixes, ep \in [TaskIds -> Endpoints], retry \in BOOLEAN}

KeySchemas ==
    {Schema(keys, pid, <<DefaultTask(1)>>, DefaultGlobalConfig) :
        keys \in SUBSET AllKeys, pid \in {"", "p1"}}

SchemaFiles == DepSchemas \cup TypeSchemas \cup SinkSchemas \cup RetrySchemas \cup KeySchemas

\* The files schema_compile is given: any keys, any task types, any allow-list.
CompileInputs ==
    {Schema(keys, pid,
            [i \in 1 .. Len(ty) |-> Task(i, ty[i], "path.to.function", {}, "task_results")],
            GlobalConfig(allowed, TRUE, DefaultMaxRetries)) :
        keys \in SUBSET AllKeys, pid \in {"", "p1"},
        ty \in UNION {[1 .. n -> TaskTypes] : n \in 0 .. MaxTasks},
        allowed \in {DefaultAllowedTaskTypes, {"LOCAL"}, {}}}

----------------------------------------------------------------------------
\* app/engine/executor.py

\* f"run_{time.time()}"
RunId(t) == <<"run_", t>>

\* A result whose output carries the run it was produced in.
ResultRecordPerRun(rid, task) ==
    [run_id |-> rid, task_id |-> task.task_id, status |-> "COMPLETED",
     output |-> <<"Mock output for task ", task.task_id, rid>>]

\* The document both executors insert for a task.
ResultRecord(rid, task) ==
    [run_id |-> rid, task_id |-> task.task_id, status |-> "COMPLETED",
     output |-> <<"Mock output for task ", task.task_id>>]

\* Every result sent to task_results, whatever the task declares.
InsertTargetFixed(task) == "task_results"

\* db[task["output_collection"]]
InsertTarget(task) == task.output_collection

\* insert_one returned: the document is in the collection.
InsertOne(p, task) ==
    LET c == InsertTarget(task)
        rec == ResultRecord(run_id[p], task)
    IN /\ db' = [db EXCEPT ![c] = @ (+) SetToBag({rec})]
       /\ written' = [written EXCEPT ![p] = Append(@, [coll |-> c, rec |-> rec])]

\* The schema an invocation loaded.
Loaded(p) == CHOOSE s \in schema[p] : TRUE

\* An exception or sys.exit(1) ends the command.
Exit(p, code, line) ==
    /\ pc' = [pc EXCEPT ![p] = "exited"]
    /\ exit_code' = [exit_code EXCEPT ![p] = code]
    /\ msg' = [msg EXCEPT ![p] = line]

\* execute_pipeline reaches schema["tasks"] and the schema has no such key:
\* KeyError; run's handler prints the error and exits 1.
pipeline_key_error(p) ==
    /\ pc[p] = "execute_pipeline"
    /\ "tasks" \notin Loaded(p).keys
    /\ Exit(p, 1, "Execution error: 'tasks'")
    /\ UNCHANGED <<vm, file, registry, db, clock, cmd, schema, run_id, idx, written,
                   push_exit, v_schema, v_result>>

\* execute_pipeline, one pass of its loop: insert_one returns.
pipeline_insert(p) ==
    /\ pc[p] = "execute_pipeline"
    /\ "tasks" \in Loaded(p).keys
    /\ idx[p] <= Len(Loaded(p).tasks)
    /\ InsertOne(p, Loaded(p).tasks[idx[p]])
    /\ idx' = [idx EXCEPT ![p] = @ + 1]
    /\ UNCHANGED <<vm, file, registry, clock, pc, cmd, schema, run_id, exit_code, msg,
                   push_exit, v_schema, v_result>>

\* execute_pipeline, one pass of its loop: insert_one raises; run's handler
\* prints the error and exits 1.
pipeline_insert_raises(p) ==
    /\ pc[p] = "execute_pipeline"
    /\ "tasks" \in Loaded(p).keys
    /\ idx[p] <= Len(Loaded(p).tasks)
    /\ Exit(p, 1, "Execution error: insert_one raised")
    /\ UNCHANGED <<vm, file, registry, db, clock, cmd, schema, run_id, idx, written,
                   push_exit, v_schema, v_result>>

\* execute_pipeline returns after its loop; run prints success.
pipeline_returns(p) ==
    /\ pc[p] = "execute_pipeline"
    /\ "tasks" \in Loaded(p).keys
    /\ idx[p] > Len(Loaded(p).tasks)
    /\ Exit(p, 0, "executed successfully")
    /\ UNCHANGED <<vm, file, registry, db, clock, cmd, schema, run_id, idx, written,
                   push_exit, v_schema, v_result>>

\* execute_single_task: insert_one returns; run_task prints success.
single_insert(p) ==
    /\ pc[p] = "execute_single_task"
    /\ InsertOne(p, Loaded(p).tasks[idx[p]])
    /\ Exit(p, 0, "executed successfully")
    /\ UNCHANGED <<vm, file, registry, clock, cmd, schema, run_id, idx,
                   push_exit, v_schema, v_result>>

\* execute_single_task: insert_one raises.
single_insert_raises(p) ==
    /\ pc[p] = "execute_single_task"
    /\ Exit(p, 1, "Execution error: insert_one raised")
    /\ UNCHANGED <<vm, file, registry, db, clock, cmd, schema, run_id, idx, written,
                   push_exit, v_schema, v_result>>

----------------------------------------------------------------------------
\* app/cli/main.py

\* load_schema(client, db_name, pipeline_id, version): the schema documents of
\* that pipeline; the empty set stands for None.
load_schema(pid) == {s \in registry : s.pipeline_id = pid}

\* push_schema(client, db_name, schema)
push_schema(s) == registry' = registry \cup {s}

\* schema_push with push_schema called before validate_schema.
schema_push_then_validate ==
    /\ push_exit = -1
    /\ push_schema(file)
    /\ push_exit' = IF validate_schema(file) = "ok" THEN 0 ELSE 1
    /\ UNCHANGED <<vm, file, db, clock, pc, cmd, schema, run_id, idx, written,
                   exit_code, msg, v_schema, v_result>>

\* schema_push --file: validate_schema, then push_schema (which returns, or
\* raises when the store fails); any exception prints an error and exits 1.
schema_push ==
    /\ push_exit = -1
    /\ \/ /\ validate_schema(file) = "ok"
          /\ push_schema(file)
          /\ push_exit' = 0
       \/ /\ validate_schema(file) = "ok"
          /\ push_exit' = 1
          /\ UNCHANGED registry
       \/ /\ validate_schema(file) # "ok"
          /\ push_exit' = 1
          /\ UNCHANGED registry
    /\ UNCHANGED <<vm, file, db, clock, pc, cmd, schema, run_id, idx, written,
                   exit_code, msg, v_schema, v_result>>

\* run with a plain return where sys.exit(1) stands: a pipeline that is not
\* found ends the command with exit code 0.
run_not_found_returns(p, pid) ==
    /\ pc[p] = "idle"
    /\ cmd' = [cmd EXCEPT ![p] = [name |-> "run", pipeline_id |-> pid, task_id |-> 0]]
    /\ IF load_schema(pid) = {}
       THEN /\ Exit(p, 0, "Pipeline not found")
            /\ UNCHANGED <<schema, run_id, idx>>
       ELSE /\ schema' = [schema EXCEPT ![p] = load_schema(pid)]
            /\ run_id' = [run_id EXCEPT ![p] = RunId(clock)]
            /\ idx' = [idx EXCEPT ![p] = 1]
            /\ pc' = [pc EXCEPT ![p] = "execute_pipeline"]
            /\ UNCHANGED <<exit_code, msg>>
    /\ UNCHANGED <<vm, file, registry, db, clock, written, push_exit, v_schema, v_result>>

\* run --pipeline_id, up to the first pass of execute_pipeline's loop.
run(p, pid) ==
    /\ pc[p] = "idle"
    /\ cmd' = [cmd EXCEPT ![p] = [name |-> "run", pipeline_id |-> pid, task_id |-> 0]]
    /\ IF load_schema(pid) = {}
       THEN /\ Exit(p, 1, "Pipeline not found")
            /\ UNCHANGED <<schema, run_id, idx>>
       ELSE /\ schema' = [schema EXCEPT ![p] = load_schema(pid)]
            /\ run_id' = [run_id EXCEPT ![p] = RunId(clock)]
            /\ idx' = [idx EXCEPT ![p] = 1]
            /\ pc' = [pc EXCEPT ![p] = "execute_pipeline"]
            /\ UNCHANGED <<exit_code, msg>>
    /\ UNCHANGED <<vm, file, registry, db, clock, written, push_exit, v_schema, v_result>>

\* next((t for t in schema["tasks"] if t["task_id"] == task_id), None), as
\* the index of that task; 0 stands for None.
RECURSIVE FindTask(_, _, _)
FindTask(tasks, tid, i) ==
    IF i > Len(tasks) THEN 0
    ELSE IF tasks[i].task_id = tid THEN i
    ELSE FindTask(tasks, tid, i + 1)

\* run_task --pipeline_id --task_id, up to execute_single_task's insert.
run_task(p, pid, tid) ==
    /\ pc[p] = "idle"
    /\ cmd' = [cmd EXCEPT ![p] = [name |-> "run_task", pipeline_id |-> pid, task_id |-> tid]]
    /\ IF load_schema(pid) = {}
       THEN /\ Exit(p, 1, "Pipeline not found")
            /\ UNCHANGED <<schema, run_id, idx>>
       ELSE LET s == CHOOSE x \in load_schema(pid) : TRUE
                i == FindTask(s.tasks, tid, 1)
            IN IF "tasks" \notin s.keys
               THEN \* schema["tasks"]: KeyError
                    /\ Exit(p, 1, "Execution error: 'tasks'")
                    /\ UNCHANGED <<schema, run_id, idx>>
               ELSE IF i = 0
               THEN /\ Exit(p, 1, "Task not found")
                    /\ UNCHANGED <<schema, run_id, idx>>
               ELSE /\ schema' = [schema EXCEPT ![p] = load_schema(pid)]
                    /\ run_id' = [run_id EXCEPT ![p] = RunId(clock)]
                    /\ idx' = [idx EXCEPT ![p] = i]
                    /\ pc' = [pc EXCEPT ![p] = "execute_single_task"]
                    /\ UNCHANGED <<exit_code, msg>>
    /\ UNCHANGED <<vm, file, registry, db, clock, written, push_exit, v_schema, v_result>>

\* schema_compile --file: validate_schema on the file's schema.
schema_compile ==
    /\ v_result = "none"
    /\ v_result' = validate_schema(v_schema)
    /\ UNCHANGED <<vm, file, registry, db, clock, pc, cmd, schema, run_id, idx, written,
                   exit_code, msg, push_exit, v_schema>>

\* Time passes.
Tick ==
    /\ clock < MaxClock
    /\ clock' = clock + 1
    /\ UNCHANGED <<vm, file, registry, db, pc, cmd, schema, run_id, idx, written,
                   exit_code, msg, push_exit, v_schema, v_result>>

----------------------------------------------------------------------------
\* app/registry/version_manager.py

\* self.supported_versions
SupportedVersions == {"v1.0.0"}

\* Python's None.
NoneValue == "<None>"

\* Version strings a schema or a caller may carry; init writes "1.0.0".
Versions == {"v1.0.0", "1.0.0", "v2.0.0"}

\* schema.get("schema_version", default)
GetSchemaVersion(s, default) ==
    IF "schema_version" \in s.keys THEN s.schema_version ELSE default

\* get_version: the value returned.
get_version(s) ==
    IF GetSchemaVersion(s, "v1.0.0") \notin SupportedVersions
    THEN "v1.0.0"
    ELSE GetSchemaVersion(s, "v1.0.0")

\* get_version: the lines it logs.
get_version_logs(s) ==
    IF GetSchemaVersion(s, "v1.0.0") \notin SupportedVersions
    THEN <<"WARNING">>
    ELSE << >>

get_raw_version(s) == GetSchemaVersion(s, NoneValue)

is_compatible(s) == get_raw_version(s) \in SupportedVersions

\* update_version storing any new_version, supported or not.
update_version_unchecked(s, new_version) ==
    [raised |-> FALSE,
     schema |-> [s EXCEPT !.keys = @ \cup {"schema_version"},
                          !.schema_version = new_version],
     logs |-> <<"INFO">>]

\* update_version: whether it raises ValueError, the schema dict afterwards
\* (it is updated in place) and the lines logged.
update_version(s, new_version) ==
    IF new_version \notin SupportedVersions
    THEN [raised |-> TRUE, schema |-> s, logs |-> <<"ERROR">>]
    ELSE [raised |-> FALSE,
          schema |-> [s EXCEPT !.keys = @ \cup {"schema_version"},
                               !.schema_version = new_version],
          logs |-> <<"INFO">>]

\* What vm_out records of a call.
Call(op, arg, result, compatible, raised, logs) ==
    [op |-> op, arg |-> arg, result |-> result, compatible |-> compatible,
     raised |-> raised, logs |-> logs, before |-> vm_schema, n |-> vm_out.n + 1]

vm_get_version ==
    /\ vm_out.n < MaxCalls
    /\ vm_out' = Call("get_version", NoneValue, get_version(vm_schema), FALSE, FALSE,
                      get_version_logs(vm_schema))
    /\ vm_log' = vm_log \o get_version_logs(vm_schema)
    /\ UNCHANGED <<vm_schema, file, registry, db, clock, pc, cmd, schema, run_id, idx,
                   written, exit_code, msg, push_exit, v_schema, v_result>>

vm_is_compatible ==
    /\ vm_out.n < MaxCalls
    /\ vm_out' = Call("is_compatible", NoneValue, NoneValue, is_compatible(vm_schema),
                      FALSE, << >>)
    /\ UNCHANGED <<vm_schema, vm_log, file, registry, db, clock, pc, cmd, schema, run_id,
                   idx, written, exit_code, msg, push_exit, v_schema, v_result>>

vm_update_version(new_version) ==
    /\ vm_out.n < MaxCalls
    /\ LET u == update_version(vm_schema, new_version)
       IN /\ vm_schema' = u.schema
          /\ vm_out' = Call("update_version", new_version, NoneValue, FALSE, u.raised, u.logs)
          /\ vm_log' = vm_log \o u.logs
    /\ UNCHANGED <<file, registry, db, clock, pc, cmd, schema, run_id, idx,
                   written, exit_code, msg, push_exit, v_schema, v_result>>

\* The schema dicts the VersionManager is given: with or without a
\* schema_version (a version string, or null), with or without a pipeline_id.
VersionSchema(keys, version) ==
    [keys |-> keys, schema_version |-> version, pipeline_id |-> "test"]

VersionInputs ==
    {VersionSchema(keys, version) :
        keys \in {k \in SUBSET {"schema_version", "pipeline_id"} : "schema_version" \in k},
        version \in Versions \cup {NoneValue}}
    \cup {VersionSchema(keys, NoneValue) : keys \in SUBSET {"pipeline_id"}}

NoCall ==
    [op |-> "none", arg |-> NoneValue, result |-> NoneValue, compatible |-> FALSE,
     raised |-> FALSE, logs |-> << >>, before |-> VersionSchema({}, NoneValue), n |-> 0]

\* No VersionManager call is made.
VmIdle ==
    /\ vm_schema = VersionSchema({}, NoneValue)
    /\ vm_out = NoCall
    /\ vm_log = << >>

----------------------------------------------------------------------------
NoCmd == [name |-> "none", pipeline_id |-> "", task_id |-> 0]

InitStore ==
    /\ registry = {}
    /\ db = [c \in Collections |-> EmptyBag]
    /\ clock = 0
    /\ pc = [p \in Procs |-> "idle"]
    /\ cmd = [p \in Procs |-> NoCmd]
    /\ schema = [p \in Procs |-> {}]
    /\ run_id = [p \in Procs |-> RunId(-1)]
    /\ idx = [p \in Procs |-> 0]
    /\ written = [p \in Procs |-> << >>]
    /\ exit_code = [p \in Procs |-> -1]
    /\ msg = [p \in Procs |-> ""]
    /\ push_exit = -1

\* The commands run against an empty database, with one schema file on disk.
Init ==
    /\ file \in SchemaFiles
    /\ InitStore
    /\ v_schema = file
    /\ v_result = "n/a"
    /\ VmIdle

Next ==
    \/ schema_push
    \/ Tick
    \/ \E p \in Procs, pid \in PipelineIds : run(p, pid)
    \/ \E p \in Procs, pid \in PipelineIds, tid \in TaskIds : run_task(p, pid, tid)
    \/ \E p \in Procs : pipeline_key_error(p)
    \/ \E p \in Procs : pipeline_insert(p)
    \/ \E p \in Procs : pipeline_insert_raises(p)
    \/ \E p \in Procs : pipeline_returns(p)
    \/ \E p \in Procs : single_insert(p)
    \/ \E p \in Procs : single_insert_raises(p)

Spec == Init /\ [][Next]_vars

\* schema_compile alone, over every file it may be given.
InitCompile ==
    /\ v_schema \in CompileInputs
    /\ v_result = "none"
    /\ file = v_schema
    /\ InitStore
    /\ VmIdle

NextCompile == schema_compile

SpecCompile == InitCompile /\ [][NextCompile]_vars

\* The VersionManager alone: up to MaxCalls calls on one schema dict.
InitVersion ==
    /\ vm_schema \in VersionInputs
    /\ vm_out = NoCall
    /\ vm_log = << >>
    /\ file = Schema(AllKeys, "p1", << >>, DefaultGlobalConfig)
    /\ InitStore
    /\ v_schema = file
    /\ v_result = "n/a"

NextVersion ==
    \/ vm_get_version
    \/ vm_is_compatible
    \/ \E new_version \in Versions : vm_update_version(new_version)

SpecVersion == InitVersion /\ [][NextVersion]_vars

----------------------------------------------------------------------------
\* Notions the properties below are stated in

\* The store shows task tid COMPLETED in run rid.
Completed(rid, tid) ==
    \E c \in Collections : \E r \in BagToSet(db[c]) :
        r.run_id = rid /\ r.task_id = tid /\ r.status = "COMPLETED"

\* The task ids named in the inputs of the tasks of s with id tid.
Deps(s, tid) ==
    UNION {TasksOf(s)[i].inputs : i \in {j \in 1 .. Len(TasksOf(s)) : TasksOf(s)[j].task_id = tid}}

\* The ids reachable from the set S along at most n dependency edges.
RECURSIVE Reach(_, _, _)
Reach(s, S, n) ==
    IF n = 0 THEN S ELSE Reach(s, S \cup UNION {Deps(s, x) : x \in S}, n - 1)

\* The dependency graph of s has a cycle.
Cyclic(s) ==
    \E i \in 1 .. Len(TasksOf(s)) :
        TasksOf(s)[i].task_id \in Reach(s, Deps(s, TasksOf(s)[i].task_id), Len(TasksOf(s)))

\* Every inputs entry of s names a task of s.
InputsPresent(s) ==
    \A i \in 1 .. Len(TasksOf(s)) :
        \A d \in TasksOf(s)[i].inputs :
            \E j \in 1 .. Len(TasksOf(s)) : TasksOf(s)[j].task_id = d

\* Task i of s has a task_type outside the schema's allow-list.
Disallowed(s, i) ==
    ~ ("global_config" \in s.keys
       /\ TasksOf(s)[i].task_type \in s.global_config.allowed_task_types)

HasDisallowedTask(s) == \E i \in 1 .. Len(TasksOf(s)) : Disallowed(s, i)

\* Invocation p is a run command that loaded its schema.
IsRun(p) == cmd[p].name = "run" /\ schema[p] # {}

\* The invocation of the task's endpoint fails every time.
AlwaysFails(task) == task.endpoint = "no.such.function"

\* The dispatch attempts a result document records (the stub's documents
\* carry no attempt count: it dispatches nothing).
Attempts(r) == IF "attempt" \in DOMAIN r THEN r.attempt ELSE 0

\* The number of insert_one calls, over all invocations, that returned for
\* collection c.
LoggedCount(c) ==
    LET n[S \in SUBSET Procs] ==
            IF S = {} THEN 0
            ELSE LET p == CHOOSE x \in S : TRUE
                 IN Cardinality({i \in 1 .. Len(written[p]) : written[p][i].coll = c})
                    + n[S \ {p}]
    IN n[Procs]

\* Invocation p's execute_pipeline returned normally.
Returned(p) == IsRun(p) /\ pc[p] = "exited" /\ exit_code[p] = 0

----------------------------------------------------------------------------
\* C1: validate_schema rejects every schema whose pipeline_id is missing or
\* empty (ValueError) and every schema with a task whose task_type is outside
\* global_config.allowed_task_types (ValueError when the allow-list is
\* there); a schema with a pipeline_id and only allow-listed task types is
\* accepted.  Stated of schema_compile (SpecCompile).
C1_ValidateSchema ==
    v_result # "none" =>
        LET noId == "pipeline_id" \notin v_schema.keys \/ v_schema.pipeline_id = ""
        IN /\ noId => v_result = "ValueError"
           /\ HasDisallowedTask(v_schema) => v_result # "ok"
           /\ (~noId /\ "global_config" \in v_schema.keys /\ HasDisallowedTask(v_schema))
                 => v_result = "ValueError"
           /\ (~noId /\ ~HasDisallowedTask(v_schema)) => v_result = "ok"

\* A schema whose first task is allow-listed and whose second is not was rejected.
C1_Witness ==
    /\ v_result = "ValueError"
    /\ "pipeline_id" \in v_schema.keys /\ v_schema.pipeline_id # ""
    /\ Len(TasksOf(v_schema)) = 2
    /\ ~Disallowed(v_schema, 1)
    /\ Disallowed(v_schema, 2)

\* C2: a schema whose dependency graph has a cycle is rejected before any
\* dispatch: schema_push does not succeed for it and no result record is
\* ever written for it.
C2_CyclicRejected ==
    Cyclic(file) =>
        /\ push_exit # 0
        /\ \A c \in Collections : db[c] = EmptyBag

\* C3: in a run over an acyclic schema (every inputs entry naming a task of
\* the schema), whatever the order of schema.tasks, the store never shows a
\* task COMPLETED while a task named in its inputs has no COMPLETED record of
\* that run.
C3_DependenciesFirst ==
    \A p \in Procs :
        (IsRun(p) /\ InputsPresent(Loaded(p)) /\ ~Cyclic(Loaded(p))) =>
            \A i \in 1 .. Len(TasksOf(Loaded(p))) :
                Completed(run_id[p], Loaded(p).tasks[i].task_id) =>
                    \A d \in Loaded(p).tasks[i].inputs : Completed(run_id[p], d)

\* C4: two invocations of execute_pipeline or execute_single_task never
\* generate the same run identifier.
C4_RunIdsDiffer ==
    \A p, q \in Procs :
        (p # q /\ schema[p] # {} /\ schema[q] # {}) => run_id[p] # run_id[q]

\* C5: the store holds at most one result record for each (run_id, task_id).
C5_OneRecordPerKey ==
    \A c1, c2 \in Collections :
        \A r1 \in BagToSet(db[c1]), r2 \in BagToSet(db[c2]) :
            (r1.run_id = r2.run_id /\ r1.task_id = r2.task_id) =>
                c1 = c2 /\ r1 = r2 /\ CopiesIn(r1, db[c1]) = 1

\* C6: a schema with a task whose task_type is outside its allow-list never
\* enters the store (schema_push exits non-zero and pushes nothing), no run
\* of it starts and no result record is written for it.
C6_DisallowedNeverStored ==
    /\ \A s \in registry : ~HasDisallowedTask(s)
    /\ HasDisallowedTask(file) =>
          /\ push_exit # 0
          /\ registry = {}
          /\ \A p \in Procs : schema[p] = {}
          /\ \A c \in Collections : db[c] = EmptyBag

\* schema_push refused a file with a disallowed task, and a run of that
\* pipeline then found nothing to execute.
C6_Witness ==
    /\ HasDisallowedTask(file)
    /\ HasPipelineId(file)
    /\ push_exit = 1
    /\ \E p \in Procs :
          /\ pc[p] = "exited"
          /\ cmd[p].name = "run"
          /\ cmd[p].pipeline_id = file.pipeline_id
          /\ msg[p] = "Pipeline not found"

\* C7: the result of a task whose invocation always fails is FAILED, after
\* max_retries + 1 attempts when retry_on_failure is true and 1 attempt when
\* it is false.
C7_FailingTaskEndsFailed ==
    \A c \in Collections : \A r \in BagToSet(db[c]) :
        \A i \in 1 .. Len(TasksOf(file)) :
            (file.tasks[i].task_id = r.task_id /\ AlwaysFails(file.tasks[i])) =>
                /\ r.status = "FAILED"
                /\ Attempts(r) = IF file.global_config.retry_on_failure
                                 THEN file.global_config.max_retries + 1
                                 ELSE 1

\* C8: a finished run is reported successful (exit code 0) exactly when a
\* COMPLETED record with its run id exists for every task of its schema.
C8_SuccessIffAllCompleted ==
    \A p \in Procs :
        (IsRun(p) /\ pc[p] = "exited") =>
            (exit_code[p] = 0 <=>
                \A i \in 1 .. Len(TasksOf(Loaded(p))) :
                    Completed(run_id[p], Loaded(p).tasks[i].task_id))

\* C9 (as amended): when execute_pipeline returns normally it has made
\* exactly one insert per entry of schema.tasks, in that order, each of a
\* COMPLETED record with the run's id and the task's id into the task's
\* declared output_collection (schema_registry included when a task declares
\* it); the store holds nothing but what the executors inserted, a collection
\* no task declares stays empty, and no schema document is added.
C9_PipelineWrites ==
    /\ \A p \in Procs :
          Returned(p) =>
              LET ts == Loaded(p).tasks
                  w == written[p]
              IN /\ Len(w) = Len(ts)
                 /\ \A i \in 1 .. Len(ts) :
                       /\ w[i].coll = ts[i].output_collection
                       /\ w[i].rec.run_id = run_id[p]
                       /\ w[i].rec.task_id = ts[i].task_id
                       /\ w[i].rec.status = "COMPLETED"
                       /\ CopiesIn(w[i].rec, db[w[i].coll]) >= 1
    /\ \A c \in Collections :
          /\ BagCardinality(db[c]) = LoggedCount(c)
          /\ (\A i \in 1 .. Len(TasksOf(file)) : file.tasks[i].output_collection # c)
                => db[c] = EmptyBag
    /\ registry \subseteq {file}

\* A run returned after inserting its first record into schema_registry and
\* its second into another collection.
C9_Witness ==
    \E p \in Procs :
        /\ Returned(p)
        /\ Len(written[p]) = 2
        /\ written[p][1].coll = "schema_registry"
        /\ written[p][2].coll = "trigger_logs"
        /\ written[p][1].rec.task_id = 1
        /\ written[p][2].rec.task_id = 2

\* C9 (as stated): as C9_PipelineWrites, and execute_pipeline writes nothing
\* to schema_registry.
C9_RegistryUntouched ==
    \A p \in Procs :
        Returned(p) =>
            /\ Len(written[p]) = Len(Loaded(p).tasks)
            /\ \A i \in 1 .. Len(written[p]) :
                  /\ written[p][i].coll = Loaded(p).tasks[i].output_collection
                  /\ written[p][i].rec.run_id = run_id[p]
                  /\ written[p][i].rec.task_id = Loaded(p).tasks[i].task_id
                  /\ written[p][i].rec.status = "COMPLETED"
                  /\ written[p][i].coll # "schema_registry"

\* C10: when an insert of a run raises, no record of a later task is
\* written, the records already written are kept, and the run ends with a
\* non-zero exit code, reported as PARTIAL with a store-unavailable marker.
C10_StoreErrorReportedPartial ==
    \A p \in Procs :
        (IsRun(p) /\ pc[p] = "exited" /\ "tasks" \in Loaded(p).keys /\ exit_code[p] # 0) =>
            /\ Len(written[p]) < Len(Loaded(p).tasks)
            /\ Len(written[p]) = idx[p] - 1
            /\ \A i \in 1 .. Len(written[p]) :
                  CopiesIn(written[p][i].rec, db[written[p][i].coll]) >= 1
            /\ msg[p] = "PARTIAL: store unavailable"

\* Invocation p is a run_task command that reached execute_single_task.
IsRunTask(p) == cmd[p].name = "run_task" /\ schema[p] # {}

\* The store holds a COMPLETED result of task tid, of whatever run.
HasCompletedResult(tid) ==
    \E c \in Collections : \E r \in BagToSet(db[c]) :
        r.task_id = tid /\ r.status = "COMPLETED"

\* The store shows task tid in status st in run rid.
Recorded(rid, tid, st) ==
    \E c \in Collections : \E r \in BagToSet(db[c]) :
        r.run_id = rid /\ r.task_id = tid /\ r.status = st

\* C11: run_task of a task with inputs writes a record (and succeeds) only
\* when every task named in its inputs has a COMPLETED result in the store;
\* otherwise it ends with a missing-dependency error and writes nothing.
C11_SingleTaskNeedsDependencies ==
    \A p \in Procs :
        (IsRunTask(p) /\ written[p] # << >>) =>
            \A d \in Loaded(p).tasks[idx[p]].inputs : HasCompletedResult(d)

\* C12: a run persists each task's result as it occurs (after k passes of
\* the loop the records of exactly the first k tasks are written), and each
\* status transition of a task, PENDING and RUNNING before the terminal one,
\* is persisted as a record of its own.
C12_TransitionsPersisted ==
    \A p \in Procs :
        (IsRun(p) /\ "tasks" \in Loaded(p).keys) =>
            /\ Len(written[p]) = idx[p] - 1
            /\ \A i \in 1 .. Len(written[p]) :
                  /\ written[p][i].rec.task_id = Loaded(p).tasks[i].task_id
                  /\ CopiesIn(written[p][i].rec, db[written[p][i].coll]) >= 1
                  /\ Recorded(run_id[p], Loaded(p).tasks[i].task_id, "PENDING")
                  /\ Recorded(run_id[p], Loaded(p).tasks[i].task_id, "RUNNING")

\* C13: two execute_single_task calls for the same task of the same schema
\* insert records with the same output, task_id and status, whatever the
\* store held and whatever ran in between; only run_id may differ.
C13_SingleTaskSameOutput ==
    \A p, q \in Procs :
        (/\ IsRunTask(p) /\ IsRunTask(q)
         /\ cmd[p].pipeline_id = cmd[q].pipeline_id
         /\ cmd[p].task_id = cmd[q].task_id
         /\ written[p] # << >> /\ written[q] # << >>) =>
            /\ written[p][1].rec.output = written[q][1].rec.output
            /\ written[p][1].rec.task_id = written[q][1].rec.task_id
            /\ written[p][1].rec.status = written[q][1].rec.status

\* Two run_task calls for one task ended at different clock values, the
\* second after the first had left its record in the store.
C13_Witness ==
    \E p, q \in Procs :
        /\ p # q
        /\ IsRunTask(p) /\ IsRunTask(q)
        /\ cmd[p].task_id = cmd[q].task_id
        /\ pc[p] = "exited" /\ pc[q] = "exited"
        /\ written[p] # << >> /\ written[q] # << >>
        /\ run_id[p] # run_id[q]

\* C14: run and run_task end with exit code 1 and write nothing when
\* load_schema finds no schema for the pipeline id, and run_task does so too
\* when no task of the schema has the task id; execute_pipeline and
\* execute_single_task are entered only with a schema found, and
\* execute_single_task only with the task asked for.
C14_NotFoundExits ==
    \A p \in Procs :
        /\ (cmd[p].name # "none" /\ load_schema(cmd[p].pipeline_id) = {}) =>
              /\ pc[p] = "exited" /\ exit_code[p] = 1
              /\ msg[p] = "Pipeline not found"
              /\ schema[p] = {} /\ written[p] = << >>
        /\ (/\ cmd[p].name = "run_task"
            /\ \E s \in load_schema(cmd[p].pipeline_id) :
                  /\ "tasks" \in s.keys
                  /\ \A i \in 1 .. Len(s.tasks) : s.tasks[i].task_id # cmd[p].task_id
            /\ msg[p] # "Pipeline not found") =>
              /\ pc[p] = "exited" /\ exit_code[p] = 1
              /\ msg[p] = "Task not found"
              /\ schema[p] = {} /\ written[p] = << >>
        /\ msg[p] \in {"Pipeline not found", "Task not found"} =>
              exit_code[p] = 1 /\ written[p] = << >>
        /\ pc[p] \in {"execute_pipeline", "execute_single_task"} =>
              /\ schema[p] # {}
              /\ schema[p] \subseteq registry
              /\ Loaded(p).pipeline_id = cmd[p].pipeline_id
        /\ pc[p] = "execute_single_task" =>
              Loaded(p).tasks[idx[p]].task_id = cmd[p].task_id

\* One command found no pipeline and the other no task, and the store is
\* still empty.
C14_Witness ==
    \E p, q \in Procs :
        /\ msg[p] = "Pipeline not found" /\ exit_code[p] = 1
        /\ msg[q] = "Task not found" /\ exit_code[q] = 1
        /\ \A c \in Collections : db[c] = EmptyBag

\* C15: get_version returns a member of supported_versions: the schema's own
\* schema_version when that is supported and the default "v1.0.0" otherwise;
\* whenever the schema_version is unsupported or missing it logs a warning
\* and returns the default.  Stated of SpecVersion.
C15_GetVersion ==
    vm_out.op = "get_version" =>
        LET s == vm_out.before
            missing == "schema_version" \notin s.keys
            own == s.schema_version
        IN /\ vm_out.result \in SupportedVersions
           /\ (~missing /\ own \in SupportedVersions) => vm_out.result = own
           /\ (missing \/ own \notin SupportedVersions) =>
                 /\ vm_out.result = "v1.0.0"
                 /\ vm_out.logs = <<"WARNING">>

\* C16: update_version with an unsupported new_version raises ValueError and
\* leaves the schema as it was; with a supported one it sets schema_version
\* to new_version and changes nothing else, after which is_compatible holds
\* and get_version returns new_version.  Stated of SpecVersion.
C16_UpdateVersion ==
    vm_out.op = "update_version" =>
        IF vm_out.arg \notin SupportedVersions
        THEN /\ vm_out.raised
             /\ vm_schema = vm_out.before
        ELSE /\ ~vm_out.raised
             /\ "schema_version" \in vm_schema.keys
             /\ vm_schema.schema_version = vm_out.arg
             /\ vm_schema.keys \ {"schema_version"} = vm_out.before.keys \ {"schema_version"}
             /\ vm_schema.pipeline_id = vm_out.before.pipeline_id
             /\ is_compatible(vm_schema)
             /\ get_version(vm_schema) = vm_out.arg

\* A schema carrying the version init writes, "1.0.0", was refused an update
\* to v2.0.0 and then updated to v1.0.0.
C16_Witness ==
    /\ vm_out.op = "update_version"
    /\ vm_out.n = 2
    /\ ~vm_out.raised
    /\ vm_out.before.schema_version = "1.0.0"
    /\ vm_schema.schema_version = "v1.0.0"
    /\ vm_log = <<"ERROR", "INFO">>

====
